---- MODULE Spec2Model ----
(***************************************************************************)
(* Model of scripts/scrape_vic_council_jobs.py: the per-site scraper       *)
(* scrape_council(c), the orchestrating loop of main(), and the load /     *)
(* merge / write of the feed file jobs.xml, over successive runs of the    *)
(* script.                                                                 *)
(*                                                                         *)
(* The web is the environment.  Every fetch_page call succeeds or fails,   *)
(* every fetched list page holds some number of cards, and every card is   *)
(* either malformed (no title tag, or no href) or resolves to a detail     *)
(* URL.  The content of a card is read when the loop reaches it.           *)
(***************************************************************************)
EXTENDS Integers, Sequences, FiniteSets, TLC

\* ---- bounds of the model ----
NumSites == 2      \* rows of council_mappings.csv with a list_url
MaxPages == 2      \* largest max_pages of a row
NumUrls == 2       \* distinct detail URLs the sites link to
ExtraCards == 0    \* cards a list page may hold beyond the threshold
MaxRuns == 2       \* successive runs of the script

\* ---- program constants ----
Threshold == 5     \* "if len(cards) < 5: break"

Sites == 1..NumSites
URLs == 1..NumUrls
MaxCards == Threshold + ExtraCards

VARIABLES
  c,          \* the element of COUNCIL_SCRAPERS passed to scrape_council
  file,       \* jobs.xml on disk
  run,        \* number of runs started
  pc,         \* position of main()
  file0,      \* jobs.xml as it was when the current run started
  existing,   \* main: existing
  fg,         \* main: the entries of the FeedGenerator, first entry first
  site,       \* main: index of the current element of COUNCIL_SCRAPERS
  all_jobs,   \* main: all_jobs
  results,    \* what each scrape_council call of this run returned or raised
  new_count,  \* main: len(new_jobs)
  prevJobs,   \* all_jobs of the previous run
  spc,        \* position of scrape_council
  jobs,       \* scrape_council: jobs
  seen,       \* scrape_council: seen
  page,       \* scrape_council: page
  ncards,     \* scrape_council: len(cards)
  idx,        \* scrape_council: cards of the current page already looped over
  fetchLog,   \* the fetch_page calls of the current scrape_council call
  clock,      \* datetime.utcnow(), as a logical time
  fp,         \* fetch_page: its position, its url and what it got
  wire,       \* fetch_page: the sleeps and GETs performed so far
  arg,        \* the arguments of a helper function called on its own
  out         \* what that call returned

vars == <<c, file, run, pc, file0, existing, fg, site, all_jobs, results,
          new_count, prevJobs, spc, jobs, seen, page, ncards, idx, fetchLog,
          clock, fp, wire, arg, out>>

\* the variables of the functions that are also modelled on their own
unitVars == <<fp, wire, arg, out>>

mainVars == <<file, run, pc, file0, existing, fg, site, all_jobs, results,
              new_count, prevJobs>>

\* ---- helpers ----
Last(s) == s[Len(s)]

Ids(s) == {s[i].url : i \in 1..Len(s)}

IdSeq(s) == [i \in 1..Len(s) |-> s[i].url]

NoDupIds(s) == \A i, j \in 1..Len(s) : s[i].url = s[j].url => i = j

Range(s) == {s[i] : i \in 1..Len(s)}

\* ---- the feed file ----
\* Path("jobs.xml"): absent, a complete feed document, or a document whose
\* write did not finish (any such document is unparseable, whatever it holds).
NoFile == [exists |-> FALSE, complete |-> FALSE, entries |-> <<>>]
Truncated == [exists |-> TRUE, complete |-> FALSE, entries |-> <<>>]
FeedFile(es) == [exists |-> TRUE, complete |-> TRUE, entries |-> es]
\* a document whose write stopped after the entries es
Partial(es) == [exists |-> TRUE, complete |-> FALSE, entries |-> es]

\* fg.load_feed inside try/except: the entries of a readable document, nothing
\* for an absent file or when loading raises.
LoadFeedAny(f) == f.entries
LoadFeed(f) == IF f.exists /\ f.complete THEN f.entries ELSE <<>>

\* lines 125-131 only read jobs.xml: the file after the load
FileAfterLoadTruncated(f) == Truncated
FileAfterLoad(f) == f

\* for e in fg.entry(): existing.add(e.id())
LoadExisting(f) == Ids(LoadFeed(f))

\* ---- fetch_page ----
ListEntry(p, ok, n) == [kind |-> "list", page |-> p, url |-> 0, ok |-> ok, n |-> n]
DetailEntry(p, u, ok) == [kind |-> "detail", page |-> p, url |-> u, ok |-> ok, n |-> 0]

\* ---- scrape_council ----
\* the job dict appended to jobs
JobRecord(u, council, t) == [url |-> u, council |-> council, published |-> t]

\* "if len(cards) < 5: break"
LastPageBreakNever(n) == FALSE
LastPage(n) == n < Threshold

\* Where the for-page loop goes at the end of an iteration for page p.
NextPageSame(p) == [spc |-> "fetch", page |-> p]
NextPage(p) ==
  IF p + 1 > c.max_pages
    THEN [spc |-> "ret", page |-> p]
    ELSE [spc |-> "fetch", page |-> p + 1]

\* Where control goes once card number i (1-based) of the page has been
\* looped over: the next card, or the check at the end of the page.
AfterCard(i) ==
  IF i < ncards
    THEN [spc |-> "cards", page |-> page]
    ELSE IF LastPage(ncards) THEN [spc |-> "ret", page |-> page] ELSE NextPage(page)

\* "seen.add(detail_url)", line 93: before the detail fetch, whatever its outcome
MarkSeenNever(s, u) == s
MarkSeen(s, u) == s \cup {u}

\* "if not det_html: continue"
OnDetailFail(i) == AfterCard(i)

\* "if not c['list_selector']: ... continue"
OnNoSelector(p) == NextPage(p)

\* "if not html: ... break"
OnListFailContinue(p) == NextPage(p)
OnListFail(p) == [spc |-> "ret", page |-> p]

\* ---- merge ----
\* new_jobs = [j for j in all_jobs if j["url"] not in existing]
NewJobsNoFilter(all, known) == all
NewJobs(all, known) == SelectSeq(all, LAMBDA j : j.url \notin known)

\* sorted(new_jobs, key=published, reverse=True): stable, most recent first
RECURSIVE InsertDesc(_, _)
InsertDesc(x, s) ==
  IF s = <<>> THEN <<x>>
  ELSE IF Head(s).published >= x.published
         THEN <<Head(s)>> \o InsertDesc(x, Tail(s))
         ELSE <<x>> \o s

RECURSIVE SortDesc(_)
SortDesc(s) ==
  IF s = <<>> THEN <<>>
  ELSE InsertDesc(Last(s), SortDesc(SubSeq(s, 1, Len(s) - 1)))

\* fe = fg.add_entry(): feedgen inserts the new entry at the front
AddEntryAppend(entries, j) == Append(entries, j)
AddEntry(entries, j) == <<j>> \o entries

RECURSIVE AddAll(_, _)
AddAll(entries, js) ==
  IF js = <<>> THEN entries ELSE AddAll(AddEntry(entries, Head(js)), Tail(js))

\* ---- initial state: module import, before main() ----
\* A row of council_mappings.csv, as far as scrape_council branches on it:
\* max_pages, and whether list_selector is a non-empty string.  Row number
\* site is read when main() passes it to scrape_council.
Configs == [max_pages : 1..MaxPages, list_selector : BOOLEAN]
NoConfig == [max_pages |-> 1, list_selector |-> FALSE]

\* no helper function is being called on its own
FpIdle == [pc |-> "idle", url |-> 0, resp |-> "none"]
NoArg == [fn |-> "none"]
NoOut == [done |-> FALSE]
UnitIdle == fp = FpIdle /\ wire = <<>> /\ arg = NoArg /\ out = NoOut

\* the script is not running
ScriptIdle ==
  /\ c = NoConfig
  /\ file = NoFile
  /\ run = 0
  /\ pc = "idle"
  /\ file0 = NoFile
  /\ existing = {}
  /\ fg = <<>>
  /\ site = 1
  /\ all_jobs = <<>>
  /\ results = <<>>
  /\ new_count = 0
  /\ prevJobs = <<>>
  /\ spc = "idle"
  /\ jobs = <<>>
  /\ seen = {}
  /\ page = 1
  /\ ncards = 0
  /\ idx = 0
  /\ fetchLog = <<>>
  /\ clock = 1

Init == UnitIdle /\ ScriptIdle

siteVars == <<c, spc, jobs, seen, page, ncards, idx, fetchLog>>

\* main(), lines 122-139: a run starts, loads the feed and its identities.
Load ==
  /\ UNCHANGED unitVars
  /\ pc \in {"idle", "done", "failed"}
  /\ run < MaxRuns
  /\ run' = run + 1
  /\ file0' = file
  /\ fg' = LoadFeed(file)
  /\ existing' = LoadExisting(file)
  /\ all_jobs' = <<>>
  /\ prevJobs' = all_jobs
  /\ results' = <<>>
  /\ new_count' = 0
  /\ site' = 1
  /\ pc' = "scrape"
  /\ spc' = "idle"
  /\ jobs' = <<>>
  /\ seen' = {}
  /\ page' = 1
  /\ ncards' = 0
  /\ idx' = 0
  /\ fetchLog' = <<>>
  /\ c' = NoConfig
  /\ file' = FileAfterLoad(file)
  /\ UNCHANGED clock

\* main() calls scrape_council(c): lines 67-69.
SiteBegin ==
  /\ UNCHANGED unitVars
  /\ pc = "scrape"
  /\ spc = "idle"
  /\ site <= NumSites
  /\ jobs' = <<>>
  /\ seen' = {}
  /\ page' = 1
  /\ ncards' = 0
  /\ idx' = 0
  /\ fetchLog' = <<>>
  /\ spc' = "fetch"
  /\ c' \in Configs
  /\ UNCHANGED clock
  /\ UNCHANGED mainVars

\* One iteration of the page loop up to the card loop: lines 70-83.
ListFetchFail ==
  /\ UNCHANGED unitVars
  /\ spc = "fetch"
  /\ fetchLog' = Append(fetchLog, ListEntry(page, FALSE, 0))
  /\ spc' = OnListFail(page).spc
  /\ page' = OnListFail(page).page
  /\ UNCHANGED <<jobs, seen, ncards, idx, c, clock>>
  /\ UNCHANGED mainVars

ListFetchNoSelector ==
  /\ UNCHANGED unitVars
  /\ spc = "fetch"
  /\ ~c.list_selector
  /\ fetchLog' = Append(fetchLog, ListEntry(page, TRUE, 0))
  /\ spc' = OnNoSelector(page).spc
  /\ page' = OnNoSelector(page).page
  /\ UNCHANGED <<jobs, seen, ncards, idx, c, clock>>
  /\ UNCHANGED mainVars

ListFetchNoCards ==
  /\ UNCHANGED unitVars
  /\ spc = "fetch"
  /\ c.list_selector
  /\ fetchLog' = Append(fetchLog, ListEntry(page, TRUE, 0))
  /\ spc' = "ret"
  /\ ncards' = 0
  /\ idx' = 0
  /\ UNCHANGED <<jobs, seen, page, c, clock>>
  /\ UNCHANGED mainVars

ListFetchCards ==
  /\ UNCHANGED unitVars
  /\ spc = "fetch"
  /\ c.list_selector
  /\ \E n \in 1..MaxCards :
       /\ fetchLog' = Append(fetchLog, ListEntry(page, TRUE, n))
       /\ ncards' = n
  /\ idx' = 0
  /\ spc' = "cards"
  /\ UNCHANGED <<jobs, seen, page, c, clock>>
  /\ UNCHANGED mainVars

\* soup.select(c["list_selector"]) raises (a selector that does not parse).
ListSelectRaises ==
  /\ UNCHANGED unitVars
  /\ spc = "fetch"
  /\ c.list_selector
  /\ fetchLog' = Append(fetchLog, ListEntry(page, TRUE, 0))
  /\ spc' = "raised"
  /\ UNCHANGED <<jobs, seen, page, ncards, idx, c, clock>>
  /\ UNCHANGED mainVars

\* One iteration of the card loop, lines 85-116, and, after the last card of
\* the page, line 117 and the step of the page loop.
CardMalformed ==
  /\ UNCHANGED unitVars
  /\ spc = "cards"
  /\ idx' = idx + 1
  /\ spc' = AfterCard(idx + 1).spc
  /\ page' = AfterCard(idx + 1).page
  /\ UNCHANGED <<jobs, seen, ncards, fetchLog, c, clock>>
  /\ UNCHANGED mainVars

CardSeen ==
  /\ UNCHANGED unitVars
  /\ spc = "cards"
  /\ \E u \in seen : TRUE
  /\ idx' = idx + 1
  /\ spc' = AfterCard(idx + 1).spc
  /\ page' = AfterCard(idx + 1).page
  /\ UNCHANGED <<jobs, seen, ncards, fetchLog, c, clock>>
  /\ UNCHANGED mainVars

CardDetailFail ==
  /\ UNCHANGED unitVars
  /\ spc = "cards"
  /\ \E u \in URLs \ seen :
       /\ seen' = MarkSeen(seen, u)
       /\ fetchLog' = Append(fetchLog, DetailEntry(page, u, FALSE))
  /\ idx' = idx + 1
  /\ spc' = OnDetailFail(idx + 1).spc
  /\ page' = OnDetailFail(idx + 1).page
  /\ UNCHANGED <<jobs, ncards, c, clock>>
  /\ UNCHANGED mainVars

CardEmit ==
  /\ UNCHANGED unitVars
  /\ spc = "cards"
  /\ \E u \in URLs \ seen :
       /\ seen' = MarkSeen(seen, u)
       /\ fetchLog' = Append(fetchLog, DetailEntry(page, u, TRUE))
       /\ jobs' = Append(jobs, JobRecord(u, site, clock))
  /\ clock' = clock + 1
  /\ idx' = idx + 1
  /\ spc' = AfterCard(idx + 1).spc
  /\ page' = AfterCard(idx + 1).page
  /\ UNCHANGED <<ncards, c>>
  /\ UNCHANGED mainVars

\* card.select_one(c["title_sel"]) or build_detail_url raises (lines 86-91): a
\* selector that does not parse, a pattern with an unknown placeholder.
CardRaises ==
  /\ UNCHANGED unitVars
  /\ spc = "cards"
  /\ spc' = "raised"
  /\ UNCHANGED <<jobs, seen, page, ncards, idx, fetchLog, c, clock>>
  /\ UNCHANGED mainVars

\* The detail page was fetched and one of the select_one calls on it raises
\* (lines 97-104): the exception leaves scrape_council, nothing is appended.
CardDetailRaises ==
  /\ UNCHANGED unitVars
  /\ spc = "cards"
  /\ \E u \in URLs \ seen :
       /\ seen' = MarkSeen(seen, u)
       /\ fetchLog' = Append(fetchLog, DetailEntry(page, u, TRUE))
  /\ spc' = "raised"
  /\ UNCHANGED <<jobs, page, ncards, idx, c, clock>>
  /\ UNCHANGED mainVars

\* The locals of scrape_council are gone once the call is over.
ClearLocals ==
  /\ spc' = "idle"
  /\ c' = NoConfig
  /\ jobs' = <<>>
  /\ seen' = {}
  /\ page' = 1
  /\ ncards' = 0
  /\ idx' = 0
  /\ fetchLog' = <<>>

\* all_jobs.extend(...)
ExtendFront(all, js) == js \o all
Extend(all, js) == all \o js

\* lines 118-119 and line 142: scrape_council returns, main extends all_jobs.
SiteReturn ==
  /\ UNCHANGED unitVars
  /\ pc = "scrape"
  /\ spc = "ret"
  /\ all_jobs' = Extend(all_jobs, jobs)
  /\ results' = Append(results, [raised |-> FALSE, jobs |-> jobs])
  /\ site' = site + 1
  /\ ClearLocals
  /\ UNCHANGED clock
  /\ UNCHANGED <<file, run, pc, file0, existing, fg, new_count, prevJobs>>

\* lines 143-144: "except Exception as e" around the call.
AfterErrorAbort(i) == NumSites + 1
AfterError(i) == i + 1

SiteCatch ==
  /\ UNCHANGED unitVars
  /\ pc = "scrape"
  /\ spc = "raised"
  /\ results' = Append(results, [raised |-> TRUE, jobs |-> <<>>])
  /\ site' = AfterError(site)
  /\ ClearLocals
  /\ UNCHANGED clock
  /\ UNCHANGED <<file, run, pc, file0, existing, fg, all_jobs, new_count, prevJobs>>

\* lines 146-158: filter, sort, add the entries.
Merge ==
  /\ UNCHANGED unitVars
  /\ pc = "scrape"
  /\ spc = "idle"
  /\ site > NumSites
  /\ fg' = AddAll(fg, SortDesc(NewJobs(all_jobs, existing)))
  /\ new_count' = Len(NewJobs(all_jobs, existing))
  /\ pc' = "merged"
  /\ UNCHANGED <<file, run, file0, existing, site, all_jobs, results,
                 prevJobs, clock>>
  /\ UNCHANGED siteVars

\* line 160, fg.rss_file(path): the file is opened for writing in place ...
PersistOpen ==
  /\ UNCHANGED unitVars
  /\ pc = "merged"
  /\ file' = Truncated
  /\ pc' = "writing"
  /\ UNCHANGED <<run, file0, existing, fg, site, all_jobs, results,
                 new_count, prevJobs, clock>>
  /\ UNCHANGED siteVars

\* ... the document is written and closed, and line 161 prints the summary,
PersistWrite ==
  /\ UNCHANGED unitVars
  /\ pc = "writing"
  /\ file' = FeedFile(fg)
  /\ pc' = "done"
  /\ UNCHANGED <<run, file0, existing, fg, site, all_jobs, results,
                 new_count, prevJobs, clock>>
  /\ UNCHANGED siteVars

\* ... or the write fails or the process is stopped part-way.
PersistFail ==
  /\ UNCHANGED unitVars
  /\ pc = "writing"
  /\ pc' = "failed"
  /\ \E k \in 0..Len(fg) : file' = Partial(SubSeq(fg, 1, k))
  /\ UNCHANGED <<run, file0, existing, fg, site, all_jobs, results,
                 new_count, prevJobs, clock>>
  /\ UNCHANGED siteVars

Next ==
  \/ Load
  \/ SiteBegin
  \/ ListFetchFail
  \/ ListFetchNoSelector
  \/ ListFetchNoCards
  \/ ListFetchCards
  \/ ListSelectRaises
  \/ CardMalformed
  \/ CardSeen
  \/ CardDetailFail
  \/ CardEmit
  \/ CardRaises
  \/ CardDetailRaises
  \/ SiteReturn
  \/ SiteCatch
  \/ Merge
  \/ PersistOpen
  \/ PersistWrite
  \/ PersistFail

Spec == Init /\ [][Next]_vars

\* ---- one run of the script ----
\* The script is sequential and each of its steps returns (fetch_page sleeps
\* 2 s and its GET has timeout=15), so a run that can take a step takes one.
LoadOnce == run = 0 /\ Load

NextRun ==
  \/ LoadOnce
  \/ SiteBegin
  \/ ListFetchFail
  \/ ListFetchNoSelector
  \/ ListFetchNoCards
  \/ ListFetchCards
  \/ ListSelectRaises
  \/ CardMalformed
  \/ CardSeen
  \/ CardDetailFail
  \/ CardEmit
  \/ CardRaises
  \/ CardDetailRaises
  \/ SiteReturn
  \/ SiteCatch
  \/ Merge
  \/ PersistOpen
  \/ PersistWrite
  \/ PersistFail

SpecRun == Init /\ [][NextRun]_vars /\ WF_vars(NextRun)

\* ---- one call of scrape_council on its own ----
\* The call main() makes for the first row in the first run (no jobs.xml yet),
\* from its first list fetch to its return or its exception.  The call reads
\* and writes nothing of main() but the clock, so every call behaves like it.
InitSite ==
  /\ UnitIdle
  /\ c \in Configs
  /\ file = NoFile
  /\ run = 1
  /\ pc = "scrape"
  /\ file0 = NoFile
  /\ existing = {}
  /\ fg = <<>>
  /\ site = 1
  /\ all_jobs = <<>>
  /\ results = <<>>
  /\ new_count = 0
  /\ prevJobs = <<>>
  /\ spc = "fetch"
  /\ jobs = <<>>
  /\ seen = {}
  /\ page = 1
  /\ ncards = 0
  /\ idx = 0
  /\ fetchLog = <<>>
  /\ clock = 1

NextSite ==
  \/ ListFetchFail
  \/ ListFetchNoSelector
  \/ ListFetchNoCards
  \/ ListFetchCards
  \/ ListSelectRaises
  \/ CardMalformed
  \/ CardSeen
  \/ CardDetailFail
  \/ CardEmit
  \/ CardRaises
  \/ CardDetailRaises

SpecSite == InitSite /\ [][NextSite]_vars

\* ---- what the properties below speak about ----
Persisted == file.exists /\ file.complete

\* the run is past the merge
Merged == pc \in {"merged", "writing", "done", "failed"}

\* the feed the run loaded
Prior == LoadFeed(file0)

\* a record without its discovery time
Discovered(s) == [i \in 1..Len(s) |-> [url |-> s[i].url, council |-> s[i].council]]

\* the list-page fetches and the successful detail fetches of the current call
IsList(e) == e.kind = "list"
IsDetail(e) == e.kind = "detail"
EmittedUrls == IdSeq(SelectSeq(fetchLog, LAMBDA e : IsDetail(e) /\ e.ok))
Scraping == pc = "scrape" /\ site \in Sites /\ spc # "idle"

RECURSIVE Flatten(_)
Flatten(rs) == IF rs = <<>> THEN <<>> ELSE Head(rs).jobs \o Flatten(Tail(rs))

\* C1: no two entries of the persisted feed have the same identity.
C1_FeedIdentitiesUnique == Persisted => NoDupIds(file.entries)

C3_CrossRunDedup ==
  Merged =>
    /\ existing = Ids(Prior)
    /\ Len(fg) = new_count + Len(Prior)
    /\ \A i \in 1..new_count : fg[i].url \notin existing
    /\ (Ids(all_jobs) \subseteq existing) => (new_count = 0 /\ fg = Prior)

C3_Witness ==
  pc = "merged" /\ all_jobs # <<>> /\ Ids(all_jobs) \subseteq existing /\ new_count = 0

\* C4: a run that discovers the same records as the run before it leaves a feed
\* with the same identity set and no duplicated identity.
C4_MergeIdempotent ==
  (pc = "done" /\ run >= 2 /\ file0.exists /\ file0.complete
     /\ Discovered(all_jobs) = Discovered(prevJobs)) =>
    /\ Ids(file.entries) = Ids(file0.entries)
    /\ NoDupIds(file.entries)

\* C5: after a list page with 1..4 cards no further list page is fetched, and
\* the call returns only once all cards of that page were looped over.
C5_EarlyTermination ==
  \A i \in 1..Len(fetchLog) :
    (IsList(fetchLog[i]) /\ fetchLog[i].n \in 1..(Threshold - 1)) =>
      /\ \A j \in (i + 1)..Len(fetchLog) : IsDetail(fetchLog[j])
      /\ page = fetchLog[i].page
      /\ spc \in {"cards", "ret", "raised"}
      /\ spc = "ret" => idx = fetchLog[i].n

C5_Witness ==
  /\ spc = "ret"
  /\ page < c.max_pages
  /\ \E i \in 1..Len(fetchLog) : IsList(fetchLog[i]) /\ fetchLog[i].n = 2
  /\ idx = 2
  /\ Len(jobs) > 0

\* C6: an item whose detail fetch failed has no record, and every item of the
\* same page whose detail fetch succeeded has one.
C6_DetailFailureIsolated ==
  \A i \in 1..Len(fetchLog) :
    (IsDetail(fetchLog[i]) /\ ~fetchLog[i].ok) =>
      /\ fetchLog[i].url \notin Ids(jobs)
      /\ \A j \in 1..Len(fetchLog) :
           (IsDetail(fetchLog[j]) /\ fetchLog[j].ok /\ fetchLog[j].page = fetchLog[i].page)
             => fetchLog[j].url \in Ids(jobs)

\* C7: a failed list fetch is the last fetch of the call, and the call is then
\* about to return the records of the earlier pages.
C7_ListFailureStops ==
  \A i \in 1..Len(fetchLog) :
    (IsList(fetchLog[i]) /\ ~fetchLog[i].ok) =>
      /\ i = Len(fetchLog)
      /\ spc = "ret"
      /\ page = fetchLog[i].page
      /\ IdSeq(jobs) = EmittedUrls
      /\ \A j \in 1..(i - 1) : fetchLog[j].page < fetchLog[i].page

C7_Witness ==
  /\ spc = "ret"
  /\ fetchLog # <<>>
  /\ IsList(Last(fetchLog)) /\ ~Last(fetchLog).ok /\ Last(fetchLog).page = 2
  /\ jobs # <<>>

\* C8: a site with an empty list selector fetches no list page after the first.
C8_NoSelectorStops ==
  (Scraping /\ ~c.list_selector) =>
    \A i \in 1..Len(fetchLog) : fetchLog[i].page = 1

\* C9: every site is invoked and accounted for, whether it returned or raised,
\* and the aggregate is the records of the sites that returned.
C9_SiteFailureIsolated ==
  /\ pc = "scrape" => Len(results) = site - 1
  /\ Merged => Len(results) = NumSites
  /\ pc # "idle" => all_jobs = Flatten(results)
  /\ \A i \in 1..Len(results) : results[i].raised => results[i].jobs = <<>>

C9_Witness ==
  /\ pc = "done"
  /\ results[1].raised
  /\ results[2].jobs # <<>>
  /\ Ids(results[2].jobs) \subseteq Ids(file.entries)

\* C10: the file always holds the complete prior feed or the complete new feed.
C10_AtomicPersist == file = file0 \/ (Persisted /\ file.entries = fg)

\* C18: an exception raised while one card is processed does not leave the
\* call: the item is skipped and the loop goes on.
C18_ItemErrorContained == ~(spc = "raised" /\ idx < ncards)

\* C20: within one call no detail URL is fetched twice, whatever the outcome of
\* its first fetch, and the records of the call have distinct identities.
DetailFetches == SelectSeq(fetchLog, IsDetail)

C20_AtMostOncePerSite ==
  /\ NoDupIds(DetailFetches)
  /\ NoDupIds(jobs)
  /\ Ids(DetailFetches) = seen
  /\ Ids(jobs) \subseteq seen

C20_Witness ==
  /\ spc = "ret"
  /\ page = 2
  /\ \E i \in 1..Len(fetchLog) :
       IsDetail(fetchLog[i]) /\ ~fetchLog[i].ok /\ fetchLog[i].page = 1
  /\ \E i \in 1..Len(fetchLog) :
       IsDetail(fetchLog[i]) /\ fetchLog[i].ok /\ fetchLog[i].page = 1
  /\ idx = ncards /\ ncards = Threshold

\* C12: the sites are called in the order of the rows, the aggregate is the
\* concatenation of what they returned in that order, and each call's records
\* are in the order of discovery (page by page, card by card).
Ordered(s) ==
  \A i, j \in 1..Len(s) :
    i < j => (s[i].council <= s[j].council /\ s[i].published < s[j].published)

C12_AggregationOrder ==
  /\ pc = "scrape" => Len(results) = site - 1
  /\ pc # "idle" => all_jobs = Flatten(results)
  /\ \A i \in 1..Len(results) :
       \A k \in 1..Len(results[i].jobs) : results[i].jobs[k].council = i
  /\ Ordered(all_jobs)
  /\ Ordered(jobs)
  /\ spc # "raised" => IdSeq(jobs) = EmittedUrls
  /\ \A i, j \in 1..Len(fetchLog) : i < j => fetchLog[i].page <= fetchLog[j].page

C12_Witness ==
  /\ pc = "merged"
  /\ Len(results[1].jobs) = 2
  /\ Len(results[2].jobs) >= 1
  /\ Len(all_jobs) >= 3

\* C16: when jobs.xml is missing or unreadable the run starts from an empty
\* feed and an empty identity set, keeps nothing of the unreadable document,
\* and goes on to scrape, merge and write.
Readable(f) == f.exists /\ f.complete

C16_LoadNonFatal ==
  (pc # "idle" /\ ~Readable(file0)) =>
    /\ existing = {}
    /\ pc = "scrape" => fg = <<>>
    /\ Merged => (Len(fg) = new_count /\ Range(fg) \subseteq Range(all_jobs))
    /\ pc = "done" => file = FeedFile(fg)

C16_Witness ==
  /\ pc = "done"
  /\ file0.exists /\ ~file0.complete /\ file0.entries # <<>>
  /\ new_count > 0
  /\ Ids(file0.entries) \cap Ids(file.entries) = {}

\* C17: jobs.xml is read when the run starts, before any fetch, it is the same
\* file all through the scraping and the merge, and it changes only in the one
\* write at the end of the run.
C17_SingleReadSingleWrite ==
  /\ [](pc \in {"scrape", "merged"} => file = file0)
  /\ [](pc = "done" => file = FeedFile(fg))
  /\ [][file' # file => (pc \in {"merged", "writing"} /\ pc' \in {"writing", "done", "failed"})]_vars
  /\ [][file0' # file0 => (pc' = "scrape" /\ site' = 1 /\ spc' = "idle" /\ fetchLog' = <<>>)]_vars

C17_Witness ==
  /\ pc = "merged"
  /\ run = 2
  /\ file = file0
  /\ Readable(file)
  /\ file.entries # <<>>
  /\ new_count > 0

\* C11: a call fetches at most max_pages list pages, and every run comes to
\* the write of the feed and then ends, with the summary or with the error of
\* the write, whatever the fetches return.
ListFetches == SelectSeq(fetchLog, IsList)

C11_RunTerminates ==
  /\ [](Len(ListFetches) <= c.max_pages)
  /\ <>(pc = "writing")
  /\ <>(pc \in {"done", "failed"})

C11_Witness ==
  /\ pc = "done"
  /\ Len(results) = NumSites
  /\ \A i \in 1..Len(results) : ~results[i].raised
  /\ all_jobs = <<>>

\* ---------------------------------------------------------------------
\* fetch_page on its own: a caller makes up to MaxFetches calls, the web
\* answers each GET as it likes.
MaxFetches == 2

\* the answers to a GET: a 2xx with a body, a 2xx with an empty body, a
\* status that is not 2xx, a connection that fails, no answer in 15 seconds
Responses == {"ok", "empty", "non2xx", "neterr", "timeout"}

\* what requests.get and raise_for_status raise on an answer
Raised(resp) ==
  CASE resp = "non2xx" -> "HTTPError"
    [] resp = "neterr" -> "ConnectionError"
    [] resp = "timeout" -> "Timeout"
    [] OTHER -> "none"

CaughtHTTPOnly(exc) == exc = "HTTPError"

\* except Exception: every error of requests is an Exception
Caught(exc) == exc \in {"HTTPError", "ConnectionError", "Timeout"}

\* resp.text of a 2xx answer
Body(resp) == IF resp = "ok" THEN "html" ELSE ""

FetchCall ==
  /\ fp.pc = "idle"
  /\ Len(out.rets) < MaxFetches
  /\ \E u \in URLs : fp' = [pc |-> "sleep", url |-> u, resp |-> "none"]
  /\ UNCHANGED <<mainVars, siteVars, clock, wire, arg, out>>

FetchSleep ==
  /\ fp.pc = "sleep"
  /\ wire' = Append(wire, [ev |-> "sleep", url |-> fp.url])
  /\ fp' = [fp EXCEPT !.pc = "get"]
  /\ UNCHANGED <<mainVars, siteVars, clock, arg, out>>

FetchGet ==
  /\ fp.pc = "get"
  /\ wire' = Append(wire, [ev |-> "get", url |-> fp.url])
  /\ \E r \in Responses :
       fp' = [fp EXCEPT !.pc = IF Raised(r) = "none" THEN "return" ELSE "except",
                        !.resp = r]
  /\ UNCHANGED <<mainVars, siteVars, clock, arg, out>>

FetchExcept ==
  /\ fp.pc = "except"
  /\ fp' = [fp EXCEPT !.pc = IF Caught(Raised(fp.resp)) THEN "failed" ELSE "raised"]
  /\ UNCHANGED <<mainVars, siteVars, clock, wire, arg, out>>

FetchReturn ==
  /\ fp.pc \in {"return", "failed"}
  /\ out' = [out EXCEPT !.rets =
               Append(@, [url |-> fp.url, resp |-> fp.resp,
                          text |-> IF fp.pc = "return" THEN Body(fp.resp) ELSE ""])]
  /\ fp' = FpIdle
  /\ UNCHANGED <<mainVars, siteVars, clock, wire, arg>>

InitFetch ==
  /\ ScriptIdle
  /\ fp = FpIdle
  /\ wire = <<>>
  /\ arg = [fn |-> "fetch_page"]
  /\ out = [done |-> FALSE, rets |-> <<>>]

NextFetch ==
  \/ FetchCall
  \/ FetchSleep
  \/ FetchGet
  \/ FetchExcept
  \/ FetchReturn

SpecFetch == InitFetch /\ [][NextFetch]_vars

\* the GETs on the wire, and the calls that have issued theirs
Gets == SelectSeq(wire, LAMBDA e : e.ev = "get")
Issued == Len(out.rets) + (IF fp.pc \in {"except", "return", "failed", "raised"} THEN 1 ELSE 0)
Failure(resp) == resp \in {"non2xx", "neterr", "timeout"}

\* C13: a call of the fetcher performs exactly one GET, of its url, after
\* its own delay has completed; it never raises to its caller; it returns
\* the empty string on a network error, a non-2xx status and a timeout.
C13_FetcherContract ==
  /\ fp.pc # "raised"
  /\ Len(Gets) = Issued
  /\ \A k \in 1..Len(out.rets) : Gets[k].url = out.rets[k].url
  /\ \A i \in 1..Len(wire) :
       /\ wire[i].ev = "get" => (i > 1 /\ wire[i-1] = [ev |-> "sleep", url |-> wire[i].url])
       /\ wire[i].ev = "sleep" =>
            IF i = Len(wire) THEN fp.pc = "get" /\ fp.url = wire[i].url
                             ELSE wire[i+1].ev = "get"
  /\ \A k \in 1..Len(out.rets) :
       Failure(out.rets[k].resp) => out.rets[k].text = ""

C13_Witness ==
  /\ fp.pc = "idle"
  /\ Len(out.rets) >= 2
  /\ Failure(out.rets[1].resp)
  /\ out.rets[1].text = ""
  /\ out.rets[2].text = "html"
  /\ Len(Gets) = Len(out.rets)

\* ---------------------------------------------------------------------
\* build_detail_url on its own. A string is a sequence of pieces: an href is
\* made of "/", "=" and "x" (text holding neither), a pattern of "lit"
\* (literal text) and of replacement fields.
MaxHref == 4
MaxPat == 2

SeqsUpTo(S, n) == UNION {[1..k -> S] : k \in 0..n}
Hrefs == SeqsUpTo({"/", "=", "x"}, MaxHref)
Fields == {"{id}", "{href}", "{slug}"}
Patterns == SeqsUpTo({"lit"} \cup Fields, MaxPat)

\* the list page url: scheme and host, then the path /x
Base == <<"lit", "/", "x">>

\* str.split(sep): the pieces between the separators
RECURSIVE Split(_, _)
Split(s, sep) ==
  IF s = <<>> THEN << <<>> >>
  ELSE LET r == Split(Tail(s), sep)
       IN  IF Head(s) = sep THEN << <<>> >> \o r
           ELSE << <<Head(s)>> \o r[1] >> \o Tail(r)

JobIdPathOnly(href) == Last(Split(href, "/"))

\* line 62
JobId(href) ==
  IF "=" \in Range(href) THEN Last(Split(href, "=")) ELSE Last(Split(href, "/"))

\* str.format with one keyword: a KeyError on any other field
RECURSIVE Fill(_, _, _)
Fill(pattern, key, val) ==
  IF pattern = <<>> THEN <<>>
  ELSE (IF Head(pattern) = key THEN val ELSE <<Head(pattern)>>) \o Fill(Tail(pattern), key, val)

Format(pattern, key, val) ==
  IF \E i \in 1..Len(pattern) : pattern[i] \in Fields \ {key}
  THEN [ok |-> FALSE, url |-> <<>>]
  ELSE [ok |-> TRUE, url |-> Fill(pattern, key, val)]

\* urljoin: an empty reference is the base, //host/path keeps the scheme, an
\* absolute path keeps scheme and host, a relative one replaces the last
\* segment of the base's path
UrlJoin(base, href) ==
  IF href = <<>> THEN base
  ELSE IF Len(href) >= 2 /\ href[1] = "/" /\ href[2] = "/" THEN <<"scheme:">> \o href
  ELSE IF href[1] = "/" THEN <<base[1]>> \o href
  ELSE SubSeq(base, 1, Len(base) - 1) \o href

UrlPassThrough ==
  /\ arg.fn = "build_detail_url" /\ ~out.done
  /\ arg.pattern = <<"{href}">>
  /\ out' = [done |-> TRUE, variant |-> "pass", ok |-> TRUE,
             url |-> UrlJoin(arg.base, arg.href)]
  /\ UNCHANGED <<mainVars, siteVars, clock, fp, wire, arg>>

UrlNumericId ==
  /\ arg.fn = "build_detail_url" /\ ~out.done
  /\ arg.pattern # <<"{href}">>
  /\ "{id}" \in Range(arg.pattern)
  /\ LET r == Format(arg.pattern, "{id}", JobId(arg.href))
     IN  out' = [done |-> TRUE, variant |-> "id", ok |-> r.ok, url |-> r.url]
  /\ UNCHANGED <<mainVars, siteVars, clock, fp, wire, arg>>

UrlTemplate ==
  /\ arg.fn = "build_detail_url" /\ ~out.done
  /\ arg.pattern # <<"{href}">>
  /\ "{id}" \notin Range(arg.pattern)
  /\ LET r == Format(arg.pattern, "{href}", arg.href)
     IN  out' = [done |-> TRUE, variant |-> "template", ok |-> r.ok, url |-> r.url]
  /\ UNCHANGED <<mainVars, siteVars, clock, fp, wire, arg>>

InitUrl ==
  /\ ScriptIdle
  /\ fp = FpIdle
  /\ wire = <<>>
  /\ \E h \in Hrefs, p \in Patterns :
       arg = [fn |-> "build_detail_url", base |-> Base, href |-> h, pattern |-> p]
  /\ out = NoOut

NextUrl ==
  \/ UrlPassThrough
  \/ UrlNumericId
  \/ UrlTemplate

SpecUrl == InitUrl /\ [][NextUrl]_vars

\* the identifier the numeric-id variant is to take from an href: the text
\* after its last "=" when it has one, otherwise after its last "/"
IsIdOf(r, href) ==
  LET sep == IF "=" \in Range(href) THEN "=" ELSE "/"
      n == Len(href) - Len(r)
  IN  /\ n >= 0
      /\ r = SubSeq(href, n + 1, Len(href))
      /\ sep \notin Range(r)
      /\ n > 0 => href[n] = sep
      /\ n = 0 => sep = "/"

\* the numeric-id variant puts the href's identifier in the place of {id}
NumericIdUrl ==
  (out.variant = "id" /\ out.ok) =>
    \E r \in SeqsUpTo({"/", "=", "x"}, MaxHref) :
      /\ IsIdOf(r, arg.href)
      /\ out.url = Fill(arg.pattern, "{id}", r)

\* exactly one variant applies, the one the pattern selects
OneVariant ==
  /\ out.variant = "pass" <=> arg.pattern = <<"{href}">>
  /\ out.variant = "id" <=> "{id}" \in Range(arg.pattern)
  /\ out.variant = "template" <=>
       (arg.pattern # <<"{href}">> /\ "{id}" \notin Range(arg.pattern))

\* the fields of the pattern other than the one its variant fills
ForeignFields ==
  Range(arg.pattern) \cap
    (Fields \ {IF out.variant = "id" THEN "{id}" ELSE "{href}"})

MaxText == 3

BandWords == {"Band", "band"}
Texts == SeqsUpTo(BandWords \cup {" ", "4", "-", "x"}, MaxText)
Defaults == {<<"Not specified">>, <<"Band", " ", "4">>}

\* the class [0-9 en-dash hyphen] of the pattern
BandClass == {"4", "-"}

\* the first position from j on that does not hold a piece of S
RECURSIVE Skip(_, _, _)
Skip(text, j, S) ==
  IF j <= Len(text) /\ text[j] \in S THEN Skip(text, j + 1, S) ELSE j

\* Band\s*([0-9 en-dash hyphen]+), ignoring case, matched at position i
MatchesAt(text, i) ==
  /\ text[i] \in BandWords
  /\ Skip(text, i + 1, {" "}) <= Len(text)
  /\ text[Skip(text, i + 1, {" "})] \in BandClass

\* re.search: the leftmost match, its group taken greedily
Search(text) ==
  IF \E i \in 1..Len(text) : MatchesAt(text, i)
  THEN LET i == CHOOSE k \in 1..Len(text) :
                  MatchesAt(text, k) /\ \A l \in 1..(k-1) : ~MatchesAt(text, l)
           j == Skip(text, i + 1, {" "})
       IN  [found |-> TRUE, group |-> SubSeq(text, j, Skip(text, j, BandClass) - 1)]
  ELSE [found |-> FALSE, group |-> <<>>]

PayBandEmpty ==
  /\ arg.fn = "extract_pay_band" /\ ~out.done
  /\ arg.text = <<>>
  /\ out' = [done |-> TRUE, val |-> arg.default]
  /\ UNCHANGED <<mainVars, siteVars, clock, fp, wire, arg>>

PayBandMatch ==
  /\ arg.fn = "extract_pay_band" /\ ~out.done
  /\ arg.text # <<>>
  /\ Search(arg.text).found
  /\ out' = [done |-> TRUE, val |-> <<"Band", " ">> \o Search(arg.text).group]
  /\ UNCHANGED <<mainVars, siteVars, clock, fp, wire, arg>>

PayBandNoMatch ==
  /\ arg.fn = "extract_pay_band" /\ ~out.done
  /\ arg.text # <<>>
  /\ ~Search(arg.text).found
  /\ out' = [done |-> TRUE, val |-> arg.default]
  /\ UNCHANGED <<mainVars, siteVars, clock, fp, wire, arg>>

InitPayBand ==
  /\ ScriptIdle
  /\ fp = FpIdle
  /\ wire = <<>>
  /\ \E t \in Texts, d \in Defaults :
       arg = [fn |-> "extract_pay_band", text |-> t, default |-> d]
  /\ out = NoOut

NextPayBand ==
  \/ PayBandEmpty
  \/ PayBandMatch
  \/ PayBandNoMatch

SpecPayBand == InitPayBand /\ [][NextPayBand]_vars

\* the word band followed, after optional white space, by a digit
BandDigitsAt(text, i) ==
  /\ text[i] \in BandWords
  /\ Skip(text, i + 1, {" "}) <= Len(text)
  /\ text[Skip(text, i + 1, {" "})] = "4"

\* the digits from position j on, single dashes between digits included
RECURSIVE DigitRange(_, _)
DigitRange(text, j) ==
  IF j <= Len(text) /\ text[j] = "4"
  THEN <<"4">> \o
       (IF j + 2 <= Len(text) /\ text[j+1] = "-" /\ text[j+2] = "4"
        THEN <<"-">> \o DigitRange(text, j + 2)
        ELSE DigitRange(text, j + 1))
  ELSE <<>>

\* C15: the result is "Band " and the captured digits or digit range exactly
\* when the text holds the word band, in any case, followed by one or more
\* digits optionally separated by a dash; otherwise, the empty text included,
\* it is the default.
C15_PayBandDerivation ==
  out.done =>
    IF \E i \in 1..Len(arg.text) : BandDigitsAt(arg.text, i)
    THEN \E i \in 1..Len(arg.text) :
           /\ BandDigitsAt(arg.text, i)
           /\ out.val = <<"Band", " ">> \o
                          DigitRange(arg.text, Skip(arg.text, i + 1, {" "}))
    ELSE out.val = arg.default

\* ---------------------------------------------------------------------
\* The location of a record (line 103) on its own. select_one gives None or
\* an element; the text of an element is a sequence of " " and "a".
None == [tag |-> FALSE, text |-> <<>>]
Tags == {None} \cup {[tag |-> TRUE, text |-> t] : t \in SeqsUpTo({" ", "a"}, MaxText)}

\* str.strip, as get_text(strip=True) applies it
RECURSIVE LStrip(_)
LStrip(s) == IF s # <<>> /\ Head(s) = " " THEN LStrip(Tail(s)) ELSE s
RECURSIVE RStrip(_)
RStrip(s) == IF s # <<>> /\ Last(s) = " " THEN RStrip(SubSeq(s, 1, Len(s) - 1)) ELSE s
Strip(s) == RStrip(LStrip(s))

\* the truth value of what select_one gives: an element is true whatever
\* it holds, None is false
Truthy(t) == t.tag

\* lines 50-51
safe_text(t) == IF Truthy(t) THEN Strip(t.text) ELSE <<>>

\* line 103
Location(det, card) ==
  LET t == safe_text(IF Truthy(det) THEN det ELSE card)
  IN  IF t # <<>> THEN t ELSE <<"VIC">>

LocationDetail ==
  /\ arg.fn = "location" /\ ~out.done
  /\ Truthy(arg.det)
  /\ out' = [done |-> TRUE, val |-> Location(arg.det, arg.card)]
  /\ UNCHANGED <<mainVars, siteVars, clock, fp, wire, arg>>

LocationCard ==
  /\ arg.fn = "location" /\ ~out.done
  /\ ~Truthy(arg.det)
  /\ out' = [done |-> TRUE, val |-> Location(arg.det, arg.card)]
  /\ UNCHANGED <<mainVars, siteVars, clock, fp, wire, arg>>

InitLocation ==
  /\ ScriptIdle
  /\ fp = FpIdle
  /\ wire = <<>>
  /\ \E d \in Tags, k \in Tags : arg = [fn |-> "location", det |-> d, card |-> k]
  /\ out = NoOut

NextLocation ==
  \/ LocationDetail
  \/ LocationCard

SpecLocation == InitLocation /\ [][NextLocation]_vars

\* the location text a selector gave: empty when it matched nothing
LocText(t) == IF t = None THEN <<>> ELSE Strip(t.text)

\* C19: the location of a record is the detail page's location text when
\* that is non-empty, otherwise the list card's when that is non-empty, and
\* "VIC" only when both are empty; it is never empty.
C19_LocationFallback ==
  out.done =>
    /\ out.val # <<>>
    /\ out.val = IF LocText(arg.det) # <<>> THEN LocText(arg.det)
                 ELSE IF LocText(arg.card) # <<>> THEN LocText(arg.card)
                 ELSE <<"VIC">>

====
